---- MODULE Spec2Model ----
(***************************************************************************)
(* Model of the tic-tac-toe game of src/src/main.rs: the game loop of      *)
(* main, the move parser move_player and the win scan check_winner.        *)
(*                                                                         *)
(* Three specifications share the variables:                               *)
(*   Spec      the game loop of main, from the empty board;                *)
(*   SpecMove  one call of move_player on a board the game reaches, with   *)
(*             every input line up to MaxLen characters;                   *)
(*   SpecEval  one call of check_winner on every 3x3 board.                *)
(***************************************************************************)
EXTENDS Integers, Sequences, FiniteSets, TLC

ROWS == 3
COLS == 3

\* Longest line content (in characters, before the newline) fed to
\* move_player in SpecMove.
MaxLen == 3

State == {"X", "O", "EMPTY"}

Failures == {"NotTwoDigits", "RowNotBaseTen", "ColNotBaseTen",
             "InvalidRowVal", "InvalidColVal", "GridOccupied"}

\* InputStatus, plus "Panic" for the panic!/expect exits of move_player and
\* "None" before the first call.
InputStatus == {"Success"} \cup Failures

Board == [0..(ROWS - 1) -> [0..(COLS - 1) -> State]]

EmptyBoard == [r \in 0..(ROWS - 1) |-> [c \in 0..(COLS - 1) |-> "EMPTY"]]

VARIABLES
    board,        \* main: board
    valid_moves,  \* main: valid_moves
    turn,         \* main: turn
    winner,       \* main: winner
    pc,           \* position of the program
    status,       \* value returned by the last move_player call
    move_str,     \* move_player: the trimmed input of the last call
    cw_ret,       \* value returned by the last check_winner call
    outcome       \* the line printed after the loop

vars == <<board, valid_moves, turn, winner, pc, status, move_str, cw_ret, outcome>>

----------------------------------------------------------------------------
(* Strings: a string is a sequence of characters; a character is encoded   *)
(* in UTF-8 in one or more bytes.                                          *)

\* The characters the inputs are built from: digits in and out of range,
\* a letter, a two-byte character and a blank.
Chars == {"0", "1", "2", "3", "9", "a", "é", " "}

\* char::len_utf8
len_utf8(ch) == IF ch = "é" THEN 2 ELSE 1

\* str::len: the length of the string in bytes.
RECURSIVE str_len(_)
str_len(s) == IF s = <<>> THEN 0 ELSE len_utf8(Head(s)) + str_len(Tail(s))

\* char::is_whitespace
is_whitespace(ch) == ch \in {" ", "\n"}

RECURSIVE trim_start(_)
trim_start(s) ==
    IF s = <<>> THEN s
    ELSE IF is_whitespace(Head(s)) THEN trim_start(Tail(s)) ELSE s

RECURSIVE trim_end(_)
trim_end(s) ==
    IF s = <<>> THEN s
    ELSE IF is_whitespace(s[Len(s)]) THEN trim_end(SubSeq(s, 1, Len(s) - 1)) ELSE s

\* str::trim
trim(s) == trim_end(trim_start(s))

\* char::to_digit(10): the value of an ASCII decimal digit, None (-1) for
\* any other character.
None == -1
to_digit(ch) ==
    CASE ch = "0" -> 0
      [] ch = "1" -> 1
      [] ch = "2" -> 2
      [] ch = "3" -> 3
      [] ch = "9" -> 9
      [] OTHER    -> None

----------------------------------------------------------------------------
(* move_player                                                             *)

\* occupied, with the comparison inverted.
occupied_inverted(b, r, c) == b[r][c] = "EMPTY"

\* occupied, with the test left out.
occupied_never(b, r, c) == FALSE

\* The occupancy test of move_player: board[r][c] != State::EMPTY.
occupied(b, r, c) == b[r][c] # "EMPTY"

\* place, with the X arm copied into the O arm.
place_x(b, r, c, t) == [b EXCEPT ![r][c] = "X"]

\* place, with row and column exchanged.
place_transposed(b, r, c, t) == [b EXCEPT ![c][r] = t]

\* The board update of move_player: match turn { X => board[r][c] = X, ... }.
place(b, r, c, t) == [b EXCEPT ![r][c] = t]

\* The length test of move_player: move_str.len() != 2, in bytes.
not_two(s) == str_len(s) # 2

\* move_player(board, turn) reading the line `line` from stdin: the status
\* it returns, the board it leaves and the trimmed input.  "Panic" stands
\* for the panic! and expect exits.
\* parse(s) is the body after  let move_str: &str = move_str.trim();  the
\* trimmed input is bound once.
move_player(b, t, line) ==
    LET parse(s) ==
            LET fail(st) == [status |-> st, board |-> b, move_str |-> s]
            IN  IF t = "EMPTY" THEN fail("Panic")
                ELSE IF not_two(s) THEN fail("NotTwoDigits")
                ELSE IF Len(s) < 1 THEN fail("Panic")
                ELSE IF to_digit(s[1]) = None THEN fail("RowNotBaseTen")
                ELSE IF to_digit(s[1]) \notin {1, 2, 3} THEN fail("InvalidRowVal")
                ELSE IF Len(s) < 2 THEN fail("Panic")
                ELSE IF to_digit(s[2]) = None THEN fail("ColNotBaseTen")
                ELSE IF to_digit(s[2]) \notin {1, 2, 3} THEN fail("InvalidColVal")
                ELSE LET r == to_digit(s[1]) - 1
                         c == to_digit(s[2]) - 1
                     IN  IF occupied(b, r, c) THEN fail("GridOccupied")
                         ELSE [status |-> "Success", board |-> place(b, r, c, t),
                               move_str |-> s]
    IN  CHOOSE res \in { parse(s) : s \in {trim(line)} } : TRUE

----------------------------------------------------------------------------
(* check_winner                                                            *)

\* The slice x[..] of an array or slice x: all of its elements, in order.
full_range(x) == x

\* match_line, with the X arm copied into the O arm.
match_line_copied(l) ==
    IF l[0] = "X" /\ l[1] = "X" /\ l[2] = "X" THEN "X"
    ELSE IF l[0] = "O" /\ l[1] = "O" /\ l[2] = "O" THEN "X"
    ELSE "EMPTY"

\* match_line, with the last cell of the X pattern a wildcard.
match_line_two(l) ==
    IF l[0] = "X" /\ l[1] = "X" THEN "X"
    ELSE IF l[0] = "O" /\ l[1] = "O" /\ l[2] = "O" THEN "O"
    ELSE "EMPTY"

\* One match of check_winner on a triple of cells.
match_line(l) ==
    IF l[0] = "X" /\ l[1] = "X" /\ l[2] = "X" THEN "X"
    ELSE IF l[0] = "O" /\ l[1] = "O" /\ l[2] = "O" THEN "O"
    ELSE "EMPTY"

\* The scrutinee of the per-row loop: board[r][..].
row_scrutinee(b, r) == full_range(b[r])

\* The scrutinee of the per-column loop: board[..][c], element c of the
\* slice of all rows.
col_scrutinee(b, c) == full_range(b)[c]

\* for r in from..ROWS: the first row whose match returns.
RECURSIVE scan_rows(_, _)
scan_rows(b, r) ==
    IF r >= ROWS THEN "EMPTY"
    ELSE IF match_line(row_scrutinee(b, r)) # "EMPTY"
         THEN match_line(row_scrutinee(b, r))
         ELSE scan_rows(b, r + 1)

\* for c in from..COLS: the first iteration whose match returns.
RECURSIVE scan_cols(_, _)
scan_cols(b, c) ==
    IF c >= COLS THEN "EMPTY"
    ELSE IF match_line(col_scrutinee(b, c)) # "EMPTY"
         THEN match_line(col_scrutinee(b, c))
         ELSE scan_cols(b, c + 1)

\* main_diag, with the last cell taken from the last row's first column.
main_diag_slip(b) == [i \in 0..2 |-> IF i = 2 THEN b[2][0] ELSE b[i][i]]

\* diag = [board[0][0], board[1][1], board[2][2]]
main_diag(b) == [i \in 0..2 |-> b[i][i]]

\* anti_diag, with the last cell taken from the first row's first column.
anti_diag_slip(b) == [i \in 0..2 |-> IF i = 2 THEN b[0][0] ELSE b[2 - i][i]]

\* diag = [board[2][0], board[1][1], board[0][2]]
anti_diag(b) == [i \in 0..2 |-> b[2 - i][i]]

check_winner(b) ==
    IF scan_rows(b, 0) # "EMPTY" THEN scan_rows(b, 0)
    ELSE IF scan_cols(b, 0) # "EMPTY" THEN scan_cols(b, 0)
    ELSE IF match_line(main_diag(b)) # "EMPTY" THEN match_line(main_diag(b))
    ELSE IF match_line(anti_diag(b)) # "EMPTY" THEN match_line(anti_diag(b))
    ELSE "EMPTY"

----------------------------------------------------------------------------
(* main                                                                    *)

\* swap_turn, with the O arm yielding EMPTY.
swap_turn_empty(t) == IF t = "X" THEN "O" ELSE IF t = "O" THEN "EMPTY" ELSE "Panic"

\* swap_turn, keeping the turn.
swap_turn_keep(t) == IF t = "EMPTY" THEN "Panic" ELSE t

\* Swap turn.
swap_turn(t) == IF t = "X" THEN "O" ELSE IF t = "O" THEN "X" ELSE "Panic"

\* The lines the players type in Spec: the nine cells, and lines that fail
\* each check of move_player.  "\n" ends a line read by read_line; the
\* empty line is what read_line leaves at end of input.
GameLines ==
    { <<r, c, "\n">> : r \in {"1", "2", "3"}, c \in {"1", "2", "3"} }
    \cup { <<>>, <<"1", "\n">>, <<"é", "\n">>, <<"a", "1", "\n">>,
           <<"9", "a", "\n">>, <<"9", "é", "\n">>, <<"1", "a", "\n">>,
           <<"1", "9", "\n">> }

Init ==
    /\ board = EmptyBoard
    /\ valid_moves = 0
    /\ turn = "X"
    /\ winner = "EMPTY"
    /\ pc = "loop"
    /\ status = "None"
    /\ move_str = <<>>
    /\ cw_ret = "None"
    /\ outcome = "None"

\* LoopIteration, counting the move before the status is tested.
LoopIteration_countfirst(line) ==
    /\ pc = "loop"
    /\ winner = "EMPTY" /\ valid_moves # 9
    /\ \E res \in {move_player(board, turn, line)} :
           /\ status' = res.status
           /\ move_str' = res.move_str
           /\ board' = res.board
           /\ outcome' = outcome
           /\ valid_moves' = valid_moves + 1
           /\ IF res.status = "Panic"
              THEN /\ pc' = "panic"
                   /\ UNCHANGED <<turn, winner, cw_ret>>
              ELSE IF res.status # "Success"
              THEN UNCHANGED <<pc, turn, winner, cw_ret>>
              ELSE /\ \E w \in {check_winner(res.board)} :
                         /\ cw_ret' = w
                         /\ winner' = IF w = "EMPTY" THEN winner ELSE w
                   /\ IF swap_turn(turn) = "Panic"
                      THEN pc' = "panic" /\ turn' = turn
                      ELSE pc' = pc /\ turn' = swap_turn(turn)

\* One iteration of  while winner == State::EMPTY && valid_moves != 9,
\* with `line` read from stdin.
LoopIteration(line) ==
    /\ pc = "loop"
    /\ winner = "EMPTY" /\ valid_moves # 9
    /\ \E res \in {move_player(board, turn, line)} :
           /\ status' = res.status
           /\ move_str' = res.move_str
           /\ board' = res.board
           /\ outcome' = outcome
           /\ IF res.status = "Panic"
              THEN /\ pc' = "panic"
                   /\ UNCHANGED <<valid_moves, turn, winner, cw_ret>>
              ELSE IF res.status # "Success"
              THEN UNCHANGED <<pc, valid_moves, turn, winner, cw_ret>>
              ELSE /\ valid_moves' = valid_moves + 1
                   /\ \E w \in {check_winner(res.board)} :
                         /\ cw_ret' = w
                         /\ winner' = IF w = "EMPTY" THEN winner ELSE w
                   /\ IF swap_turn(turn) = "Panic"
                      THEN pc' = "panic" /\ turn' = turn
                      ELSE pc' = pc /\ turn' = swap_turn(turn)

\* The match on winner after the loop.
Report ==
    /\ pc = "loop"
    /\ ~(winner = "EMPTY" /\ valid_moves # 9)
    /\ outcome' = CASE winner = "X" -> "Player X wins!"
                    [] winner = "O" -> "Player O wins!"
                    [] OTHER        -> "Draw!"
    /\ pc' = "done"
    /\ UNCHANGED <<board, valid_moves, turn, winner, status, move_str, cw_ret>>

Next ==
    \/ \E line \in GameLines : LoopIteration(line)
    \/ Report

Spec == Init /\ [][Next]_vars

Digits == <<"1", "2", "3">>

\* The lines the players type in SpecLive: the nine cells and one
\* malformed line.
LiveLines ==
    { <<r, c, "\n">> : r \in {"1", "2", "3"}, c \in {"1", "2", "3"} }
    \cup { <<"9", "a", "\n">> }

\* An iteration in which the player enters a valid move: a line "rc"
\* addressing an EMPTY cell.
ValidMove ==
    \E r \in 0..2, c \in 0..2 :
        /\ board[r][c] = "EMPTY"
        /\ move_str' = <<Digits[r + 1], Digits[c + 1]>>
        /\ LoopIteration(<<Digits[r + 1], Digits[c + 1], "\n">>)

NextLive ==
    \/ \E line \in LiveLines : LoopIteration(line)
    \/ Report

\* The game in which a player who is asked for a move eventually enters a
\* valid one, and the program goes on after the loop.
SpecLive == Init /\ [][NextLive]_vars /\ WF_vars(ValidMove) /\ WF_vars(Report)

----------------------------------------------------------------------------
(* SpecMove: one call of move_player.                                      *)

\* Every line of at most MaxLen characters, as read_line returns it, and
\* the empty line of the end of input.
Lines ==
    { l \o <<"\n">> : l \in UNION { [1..k -> Chars] : k \in 0..MaxLen } }
    \cup { <<>> }

\* The states of main before the first call of move_player and before the
\* second one: the empty board with X to move, and each board holding the
\* first X with O to move.
InitMove ==
    /\ pc = "call"
    /\ winner = "EMPTY"
    /\ outcome = "None"
    /\ \/ /\ board = EmptyBoard
          /\ valid_moves = 0
          /\ turn = "X"
          /\ status = "None"
          /\ move_str = <<>>
          /\ cw_ret = "None"
       \/ \E r \in 0..(ROWS - 1), c \in 0..(COLS - 1) :
             /\ board = place(EmptyBoard, r, c, "X")
             /\ valid_moves = 1
             /\ turn = "O"
             /\ status = "Success"
             /\ move_str = <<Digits[r + 1], Digits[c + 1]>>
             /\ cw_ret = "EMPTY"

\* let status = move_player(&mut board, turn), with `line` read from stdin.
CallMovePlayer(line) ==
    /\ pc = "call"
    /\ LET res == move_player(board, turn, line)
       IN  /\ status' = res.status
           /\ move_str' = res.move_str
           /\ board' = res.board
    /\ pc' = "returned"
    /\ UNCHANGED <<valid_moves, turn, winner, cw_ret, outcome>>

NextMove == \E line \in Lines : CallMovePlayer(line)

SpecMove == InitMove /\ [][NextMove]_vars

----------------------------------------------------------------------------
(* SpecEval: one call of check_winner.                                     *)

\* Any 3x3 board is passed to check_winner.
InitEval ==
    /\ board \in Board
    /\ pc = "eval"
    /\ valid_moves = 0
    /\ turn = "X"
    /\ winner = "EMPTY"
    /\ status = "None"
    /\ move_str = <<>>
    /\ cw_ret = "None"
    /\ outcome = "None"

\* check_winner(&board)
Evaluate ==
    /\ pc = "eval"
    /\ cw_ret' = check_winner(board)
    /\ pc' = "evaluated"
    /\ UNCHANGED <<board, valid_moves, turn, winner, status, move_str, outcome>>

NextEval == Evaluate

SpecEval == InitEval /\ [][NextEval]_vars

----------------------------------------------------------------------------
(* The properties.                                                         *)

Marks == {"X", "O"}

Other(M) == IF M = "X" THEN "O" ELSE "X"

RowAll(b, r, M) == \A c \in 0..2 : b[r][c] = M
ColAll(b, c, M) == \A r \in 0..2 : b[r][c] = M
MainAll(b, M) == b[0][0] = M /\ b[1][1] = M /\ b[2][2] = M
AntiAll(b, M) == b[0][2] = M /\ b[1][1] = M /\ b[2][0] = M

\* Some of the 8 lines of b holds M in its three cells.
HasLine(b, M) ==
    \/ \E r \in 0..2 : RowAll(b, r, M)
    \/ \E c \in 0..2 : ColAll(b, c, M)
    \/ MainAll(b, M)
    \/ AntiAll(b, M)

AnyLine(b) == \E M \in Marks : HasLine(b, M)

\* The decimal digits among Chars.
DigitChars == {"0", "1", "2", "3", "9"}

\* The trimmed input "rc" for r, c in 1..3.
RC(r, c) == <<Digits[r], Digits[c]>>

\* A step of the game loop that stays in the loop: one iteration.
Iteration == pc = "loop" /\ pc' = "loop"

\* C1: check_winner detects column wins: on a board where some column
\* holds the mark M in its three cells and no column is filled with the
\* other mark, check_winner returns M.  Stated of the board of the game
\* and of the value check_winner returned for it after the last move.
C1_ColumnWin ==
    valid_moves > 0 =>
        \A M \in Marks : \A c \in 0..2 :
            (ColAll(board, c, M) /\ ~ \E c2 \in 0..2 : ColAll(board, c2, Other(M)))
                => cw_ret = M

\* C2: terminal states accept no further moves: a move is requested (the
\* loop condition holds) only if no line of the board holds three equal
\* marks.
C2_NoMoveAfterLine ==
    (pc = "loop" /\ winner = "EMPTY" /\ valid_moves # 9) => ~AnyLine(board)

\* C3: draw detection: on a full board (9 successful moves) with none of
\* the 8 lines complete, winner is EMPTY, no further move is requested and
\* the outcome printed is "Draw!", never a win.
C3_DrawDetection ==
    (valid_moves = 9 /\ ~AnyLine(board)) =>
        /\ winner = "EMPTY"
        /\ outcome \in {"None", "Draw!"}
        /\ pc = "done" => outcome = "Draw!"

C3_Witness ==
    /\ pc = "done"
    /\ valid_moves = 9
    /\ ~AnyLine(board)
    /\ outcome = "Draw!"

\* C4: turn alternation: an iteration whose move_player call returns
\* Success changes turn to the other mark; an iteration whose call returns
\* one of the six failures leaves turn unchanged.
C4_TurnAlternation ==
    [][Iteration =>
          /\ status' = "Success" => (turn' = Other(turn) /\ turn' # turn)
          /\ status' \in Failures => turn' = turn]_vars

\* A rejected move after the first successful one: the turn went to O and
\* stayed there.
C4_Witness ==
    /\ status \in Failures
    /\ valid_moves = 1
    /\ turn = "O"

\* C5: a rejected move changes no game state: an iteration whose
\* move_player call returns one of the six failures leaves board,
\* valid_moves, turn and winner as they were.
C5_RejectedMoveFrame ==
    [][(Iteration /\ status' \in Failures) =>
          /\ board' = board
          /\ valid_moves' = valid_moves
          /\ turn' = turn
          /\ winner' = winner]_vars

C5_Witness ==
    /\ status = "InvalidColVal"
    /\ valid_moves = 2
    /\ board # EmptyBoard
    /\ winner = "EMPTY"

\* C6: occupied-cell rejection: an input "rc", r and c in 1..3, whose cell
\* (r-1, c-1) is not EMPTY is answered GridOccupied and the mark in the
\* cell stays.
C6_OccupiedRejected ==
    [][Iteration =>
          \A r \in 1..3 : \A c \in 1..3 :
              (move_str' = RC(r, c) /\ board[r - 1][c - 1] # "EMPTY") =>
                  /\ status' = "GridOccupied"
                  /\ board'[r - 1][c - 1] = board[r - 1][c - 1]]_vars

\* O answered "11" while X holds the cell (0,0).
C6_Witness ==
    /\ status = "GridOccupied"
    /\ move_str = RC(1, 1)
    /\ turn = "O"
    /\ board[0][0] = "X"

\* C7: first failure wins: a two-character input whose first character is
\* not a decimal digit is answered RowNotBaseTen, one whose first character
\* is a digit outside 1..3 is answered InvalidRowVal, whatever the second
\* character; a column failure or GridOccupied is answered only when the
\* first character is in 1..3.
C7_RowFailureFirst ==
    pc = "returned" =>
        /\ (Len(move_str) = 2 /\ move_str[1] \notin DigitChars)
               => status = "RowNotBaseTen"
        /\ (Len(move_str) = 2 /\ move_str[1] \in DigitChars \ {"1", "2", "3"})
               => status = "InvalidRowVal"
        /\ status \in {"ColNotBaseTen", "InvalidColVal", "GridOccupied"}
               => (Len(move_str) >= 1 /\ move_str[1] \in {"1", "2", "3"})

\* C8: the length check counts characters: the trimmed input is answered
\* NotTwoDigits exactly when it does not consist of 2 characters.
C8_LengthCountsChars ==
    pc = "returned" => (status = "NotTwoDigits" <=> Len(move_str) # 2)

\* C9: a successful move places one mark: an input "rc", r and c in 1..3,
\* whose cell (r-1, c-1) is EMPTY is answered Success, the cell takes the
\* mark of the turn and the other eight cells stay.
C9_SuccessPlacesOneMark ==
    [][Iteration =>
          \A r \in 1..3 : \A c \in 1..3 :
              (move_str' = RC(r, c) /\ board[r - 1][c - 1] = "EMPTY") =>
                  /\ status' = "Success"
                  /\ board'[r - 1][c - 1] = turn
                  /\ \A r2 \in 0..2 : \A c2 \in 0..2 :
                        (r2 # r - 1 \/ c2 # c - 1) => board'[r2][c2] = board[r2][c2]]_vars

\* O answered "23" on a board holding only X's first mark: the cell (1,2)
\* took O.
C9_Witness ==
    /\ status = "Success"
    /\ move_str = RC(2, 3)
    /\ valid_moves = 2
    /\ board[1][2] = "O"
    /\ board[2][1] = "EMPTY"

\* C10: row win: on a board where some row r holds the mark M in its three
\* cells and no row of smaller index is filled with the other mark,
\* check_winner returns M.
C10_RowWin ==
    pc = "evaluated" =>
        \A M \in Marks : \A r \in 0..2 :
            (RowAll(board, r, M) /\ \A r2 \in 0..2 : r2 < r => ~RowAll(board, r2, Other(M)))
                => cw_ret = M

\* Row 1 of O above a row 2 of X: O is returned.
C10_Witness ==
    /\ pc = "evaluated"
    /\ RowAll(board, 1, "O")
    /\ RowAll(board, 2, "X")
    /\ cw_ret = "O"

\* C11: diagonal win: on a board whose main diagonal or anti-diagonal
\* holds the mark M in its three cells, check_winner returns M.
C11_DiagonalWin ==
    pc = "evaluated" =>
        \A M \in Marks :
            (MainAll(board, M) \/ AntiAll(board, M)) => cw_ret = M

\* The anti-diagonal of O, with no row complete: O is returned.
C11_Witness ==
    /\ pc = "evaluated"
    /\ AntiAll(board, "O")
    /\ ~MainAll(board, "O")
    /\ \A r \in 0..2 : ~RowAll(board, r, "O")
    /\ cw_ret = "O"

\* C12: no false wins: on a board none of whose 8 lines holds three equal
\* marks check_winner returns EMPTY, and a mark M it returns fills some
\* row, column or diagonal of the board.
C12_NoFalseWin ==
    pc = "evaluated" =>
        /\ ~AnyLine(board) => cw_ret = "EMPTY"
        /\ cw_ret \in Marks => HasLine(board, cw_ret)

\* A full board without a line, answered EMPTY.
C12_Witness ==
    /\ pc = "evaluated"
    /\ \A r \in 0..2 : \A c \in 0..2 : board[r][c] # "EMPTY"
    /\ ~AnyLine(board)
    /\ cw_ret = "EMPTY"

\* C13: move count: valid_moves stays within 0..9, changes only by +1 and
\* only in an iteration whose move_player call returned Success, and once
\* it is 9 the loop asks for no move: the next step leaves the loop.
C13_MoveCount ==
    /\ [](valid_moves \in 0..9)
    /\ [][valid_moves' # valid_moves =>
             (Iteration /\ status' = "Success" /\ valid_moves' = valid_moves + 1)]_vars
    /\ [][(pc = "loop" /\ valid_moves = 9) => pc' = "done"]_vars

\* The ninth move was counted and the loop was left.
C13_Witness ==
    /\ valid_moves = 9
    /\ status = "Success"
    /\ pc = "done"

\* C14: turn is always a player mark, X or O and never EMPTY, and no
\* panic!("Invalid turn value") branch of main or move_player is taken.
C14_TurnIsPlayer ==
    /\ turn \in Marks
    /\ pc # "panic"
    /\ status # "Panic"

\* Turn went to O and came back to X.
C14_Witness ==
    /\ pc = "loop"
    /\ valid_moves = 2
    /\ turn = "X"

Outcomes == {"Player X wins!", "Player O wins!", "Draw!"}

\* C15: the game runs to completion: the loop is left after at most 9
\* successful moves and, when the player asked for a move eventually enters
\* a valid one, the program eventually reports exactly one of Player X
\* wins, Player O wins, Draw.
C15_Completion ==
    /\ [](pc = "done" => (valid_moves <= 9 /\ outcome \in Outcomes))
    /\ <>(pc = "done" /\ outcome \in Outcomes)

\* A game ended by X's third mark.
C15_Witness ==
    /\ pc = "done"
    /\ valid_moves = 5
    /\ outcome = "Player X wins!"

\* C17: a reported draw means nobody has a line: when the game ends with
\* winner EMPTY the board is full and none of the 8 lines holds three equal
\* marks.
C17_DrawHasNoLine ==
    (pc = "done" /\ winner = "EMPTY") =>
        /\ \A r \in 0..2 : \A c \in 0..2 : board[r][c] # "EMPTY"
        /\ ~AnyLine(board)

\* C18: the declared winner is the player who just moved: when winner is
\* set to M, the step is a successful move of M, which placed M in an EMPTY
\* cell, the board holds M in the three cells of some line and the other
\* player holds no complete line.
C18_WinnerJustMoved ==
    [][winner' # winner =>
          /\ Iteration
          /\ status' = "Success"
          /\ winner' = turn
          /\ \E r \in 0..2 : \E c \in 0..2 :
                board[r][c] = "EMPTY" /\ board'[r][c] = winner'
          /\ HasLine(board', winner')
          /\ ~HasLine(board', Other(winner'))]_vars

\* O was declared winner after its move.
C18_Witness ==
    /\ winner = "O"
    /\ turn = "X"
    /\ status = "Success"
    /\ HasLine(board, "O")

\* The number of cells of b holding M.
Count(b, M) == Cardinality({ rc \in (0..2) \X (0..2) : b[rc[1]][rc[2]] = M })

\* C19: board/counter consistency at the top of the loop: valid_moves is
\* the number of non-EMPTY cells, X holds as many cells as O or one more,
\* the first mark is X, and while the game is in progress turn is X exactly
\* when valid_moves is even.
C19_Consistency ==
    pc = "loop" =>
        /\ valid_moves = Count(board, "X") + Count(board, "O")
        /\ Count(board, "X") - Count(board, "O") \in {0, 1}
        /\ valid_moves >= 1 => Count(board, "X") >= 1
        /\ (winner = "EMPTY" /\ valid_moves # 9) =>
               (turn = "X" <=> valid_moves % 2 = 0)

\* Three marks on the board, O to move.
C19_Witness ==
    /\ pc = "loop"
    /\ winner = "EMPTY"
    /\ valid_moves = 3
    /\ turn = "O"
    /\ Count(board, "X") = 2

\* The 8 lines in the order row 0, row 1, row 2, column 0, column 1,
\* column 2, main diagonal, anti-diagonal.
ScanOrder ==
    << <<<<0, 0>>, <<0, 1>>, <<0, 2>>>>,
       <<<<1, 0>>, <<1, 1>>, <<1, 2>>>>,
       <<<<2, 0>>, <<2, 1>>, <<2, 2>>>>,
       <<<<0, 0>>, <<1, 0>>, <<2, 0>>>>,
       <<<<0, 1>>, <<1, 1>>, <<2, 1>>>>,
       <<<<0, 2>>, <<1, 2>>, <<2, 2>>>>,
       <<<<0, 0>>, <<1, 1>>, <<2, 2>>>>,
       <<<<0, 2>>, <<1, 1>>, <<2, 0>>>> >>

\* The line i of ScanOrder holds three equal marks on b.
Complete(b, i) ==
    LET l == ScanOrder[i]
    IN  /\ b[l[1][1]][l[1][2]] # "EMPTY"
        /\ b[l[2][1]][l[2][2]] = b[l[1][1]][l[1][2]]
        /\ b[l[3][1]][l[3][2]] = b[l[1][1]][l[1][2]]

\* The mark of the first complete line of b in ScanOrder.
FirstLineMark(b) ==
    LET i == CHOOSE k \in 1..8 :
                 Complete(b, k) /\ \A j \in 1..(k - 1) : ~Complete(b, j)
    IN  b[ScanOrder[i][1][1]][ScanOrder[i][1][2]]

\* C20: line scan order: when several of the 8 lines hold three equal
\* marks, check_winner returns the mark of the first of them in the order
\* rows, columns, main diagonal, anti-diagonal.  Stated of the board of the
\* game and of the value check_winner returned for it after the last move.
C20_ScanOrder ==
    (valid_moves > 0 /\ Cardinality({ i \in 1..8 : Complete(board, i) }) >= 2)
        => cw_ret = FirstLineMark(board)

====
